---- MODULE Spec2Model ----
(***************************************************************************)
(* A model of app/draft_board.py, the NFFC draft board.                    *)
(*                                                                         *)
(* Encodings.  An absent number (Python None, pandas NaN) is None; an      *)
(* absent string is NoneStr.  league_points is held in tenths of a point   *)
(* (15 is 1.5 points), so that the "{pts:.0f}" rounding is computed and    *)
(* not assumed.  The two non-ASCII characters of the source are spelled    *)
(* by their code points (MIDDLE_DOT, EM_DASH).  A data frame is the        *)
(* sequence of its rows, a pivoted grid a function round -> slot -> cell.  *)
(***************************************************************************)
EXTENDS Integers, Sequences, FiniteSets, TLC

VARIABLES
    picks_data,     \* build_board: the argument
    board,          \* build_board: what the call produced
    c_rank,         \* rank_color: the rank argument
    c_total,        \* rank_color: the total argument
    color,          \* rank_color: the (bg, text_color) pair returned
    source,         \* _paginated_fetch: the rows the query selects
    page_size,      \* _paginated_fetch: the page_size argument
    offset,         \* _paginated_fetch: the local offset
    all_rows,       \* _paginated_fetch: the local all_rows
    requests,       \* the (from, to) windows asked of the query so far
    fetch_pc,       \* _paginated_fetch: "loop" or "done"
    db_drafts,      \* view_draft_board: league_id -> its rows
    year_select,    \* the Year selectbox
    league_select,  \* the League selectbox
    session_state,  \* st.session_state
    view,           \* what the last run of draft_board() rendered
    fetched,        \* the league ids fetch_draft was called with
    event           \* the run that came last; "load" while the rerun a
                    \* click asked for has not run yet

board_vars == <<picks_data, board>>
color_vars == <<c_rank, c_total, color>>
fetch_vars == <<source, page_size, offset, all_rows, requests, fetch_pc>>
app_vars == <<db_drafts, year_select, league_select, session_state, view,
              fetched, event>>
vars == <<board_vars, color_vars, fetch_vars, app_vars>>

\* ------------------------------------------------------------------ bounds
MaxPicks == 3
MaxRound == 2
MaxSlot == 2

\* ------------------------------------------------------------ absent values
None == -1
NoneStr == "None"
MIDDLE_DOT == "<U+00B7>"
EM_DASH == "<U+2014>"

isna(val) == val = None

Max(S) == CHOOSE m \in S : \A x \in S : x <= m
Min(S) == CHOOSE m \in S : \A x \in S : m <= x

\* "{x:.0f}" of a non-negative number given in tenths: round to nearest,
\* ties to even (0.5 -> "0", 1.5 -> "2", 2.5 -> "2").
format_0f(tenths) ==
    LET q == tenths \div 10
        r == tenths % 10
    IN  ToString(IF r < 5 THEN q
                 ELSE IF r > 5 THEN q + 1
                 ELSE IF q % 2 = 0 THEN q ELSE q + 1)

\* ------------------------------------------------------------- build_board
\* line 127: df["draft_order"].isna().all()
isna_all(df) == \A i \in DOMAIN df : isna(df[i].draft_order)

\* line 128: the rows of round 1 ...
Round1(df) == {i \in DOMAIN df : df[i].round = 1}

\* ... sorted by pick_in_round.  sort_values uses quicksort, which is not
\* stable: rows with equal pick_in_round may come out in either order, so
\* the sorted frame is any ascending arrangement of the round-1 rows.
sort_values(df) ==
    LET S == Round1(df)
        n == Cardinality(S)
    IN  {s \in [1..n -> S] :
            /\ \A a, b \in 1..n : a # b => s[a] # s[b]
            /\ \A a, b \in 1..n :
                 a < b => df[s[a]].pick_in_round <= df[s[b]].pick_in_round}

\* line 129: {tid: i + 1 for i, tid in enumerate(r1["team_id"])}.  A dict
\* comprehension keeps, for a key met again, the value of its last
\* occurrence.
team_to_slot(df, r1) ==
    [tid \in {df[r1[k]].team_id : k \in DOMAIN r1} |->
        Max({k \in DOMAIN r1 : df[r1[k]].team_id = tid})]

\* lines 127-130: the draft_order column after the derivation; map() gives
\* NaN to a team id that is not a key of the dict.
resolve_draft_order(df, r1) ==
    IF isna_all(df)
    THEN LET tts == team_to_slot(df, r1)
         IN  [i \in DOMAIN df |->
                IF df[i].team_id \in DOMAIN tts THEN tts[df[i].team_id]
                ELSE None]
    ELSE [i \in DOMAIN df |-> df[i].draft_order]

\* lines 136-137
_safe(val) == IF val = NoneStr THEN "" ELSE val

\* lines 139-146.  str.strip() is computed for names that themselves carry
\* no leading or trailing blank, which is all the model draws.
cell_text(r) ==
    LET fn == _safe(r.first_name)
        ln == _safe(r.last_name)
        joined == IF fn = "" THEN ln
                  ELSE IF ln = "" THEN fn
                  ELSE fn \o " " \o ln
        name == IF joined = "" THEN EM_DASH ELSE joined
    IN  name \o "\n" \o _safe(r.position) \o " " \o MIDDLE_DOT \o " "
             \o _safe(r.team) \o " (" \o ToString(r.overall_pick) \o ")"

\* lines 151, 158: DataFrame.pivot raises ValueError("Index contains
\* duplicate entries, cannot reshape") when two rows share (index, columns);
\* NaN is a column key like any other.
pivot_duplicates(df, col) ==
    \E i, j \in DOMAIN df :
        i < j /\ df[i].round = df[j].round /\ col[i] = col[j]

\* line 132: Series.max() skips NaN.  (num_slots_mut is the variant that
\* counts the distinct slots instead of taking the largest; C4 tells the two
\* apart.)
num_slots_mut(col) == Cardinality({col[i] : i \in DOMAIN col} \ {None})
num_slots_of(col) == Max({col[i] : i \in DOMAIN col} \ {None})

\* line 133
max_round_of(df) == Max({df[i].round : i \in DOMAIN df})

\* lines 151-162: pivot, reindex to 1..max_round x 1..num_slots, fillna("").
\* cell(r) is the value pivoted; an absent position (None) is filled too.
pivot_text(df, col, max_round, num_slots) ==
    [rd \in 1..max_round |-> [slot \in 1..num_slots |->
        LET hits == {i \in DOMAIN df : df[i].round = rd /\ col[i] = slot}
        IN  IF hits = {} THEN "" ELSE cell_text(df[CHOOSE i \in hits : TRUE])]]

pivot_position(df, col, max_round, num_slots) ==
    [rd \in 1..max_round |-> [slot \in 1..num_slots |->
        LET hits == {i \in DOMAIN df : df[i].round = rd /\ col[i] = slot}
        IN  IF hits = {} THEN ""
            ELSE _safe(df[CHOOSE i \in hits : TRUE].position)]]

\* lines 165-169: drop_duplicates(subset="draft_order") keeps the first row
\* of each draft_order; team_info(df, col, slot) is that row.
in_team_info(col, slot) == \E i \in DOMAIN col : col[i] = slot
team_info(df, col, slot) == df[Min({i \in DOMAIN col : col[i] = slot})]

\* lines 178, 190: `rank and not pd.isna(rank)`: 0 is falsy
truthy(val) == val # 0 /\ ~isna(val)

\* lines 171-182
col_label(df, col, slot) ==
    LET line1 == "Slot " \o ToString(slot)
        has == in_team_info(col, slot)
        info == team_info(df, col, slot)
        rank_part == IF has /\ truthy(info.league_rank)
                     THEN <<"#" \o ToString(info.league_rank)>> ELSE <<>>
        pts_part == IF has /\ truthy(info.league_points)
                    THEN <<format_0f(info.league_points) \o "pts">> ELSE <<>>
        line2_parts == rank_part \o pts_part
    IN  IF Len(line2_parts) = 0 THEN line1
        ELSE IF Len(line2_parts) = 1 THEN line1 \o "\n" \o line2_parts[1]
        ELSE line1 \o "\n" \o line2_parts[1] \o " " \o MIDDLE_DOT \o " "
                   \o line2_parts[2]

\* lines 186-192
col_rank(df, col, slot) ==
    IF in_team_info(col, slot) /\ truthy(team_info(df, col, slot).league_rank)
    THEN team_info(df, col, slot).league_rank
    ELSE None

\* lines 122-198.  r1 is the sorted round-1 frame of line 128.  A raised
\* exception is a result of status "error"; df_draft_order is the local
\* frame's draft_order column when the call ended.
build_board(df, r1) ==
    LET col == resolve_draft_order(df, r1)
    IN  IF df = <<>>
        THEN [status |-> "error", error |-> "KeyError: 'draft_order'",
              df_draft_order |-> <<>>]
        ELSE IF \A i \in DOMAIN col : isna(col[i])
        THEN [status |-> "error",
              error |-> "ValueError: cannot convert float NaN to integer",
              df_draft_order |-> col]
        ELSE IF pivot_duplicates(df, col)
        THEN [status |-> "error",
              error |-> "ValueError: Index contains duplicate entries, cannot reshape",
              df_draft_order |-> col]
        ELSE
        LET num_slots == num_slots_of(col)
            max_round == max_round_of(df)
            labels == [slot \in 1..num_slots |-> col_label(df, col, slot)]
        IN  [status |-> "ok",
             text_grid |-> pivot_text(df, col, max_round, num_slots),
             pos_grid |-> pivot_position(df, col, max_round, num_slots),
             columns |-> labels,
             col_ranks |->
                [l \in {labels[s] : s \in 1..num_slots} |->
                    col_rank(df, col,
                             CHOOSE s \in 1..num_slots : labels[s] = l)],
             num_slots |-> num_slots,
             df_draft_order |-> col]

\* ------------------------------------------------------ the inputs drawn
Teams == {"A", "B", "C"}
PickInRounds == 1..Cardinality(Teams)

\* The players a pick may name, by overall pick: a full record, an entirely
\* absent one, and one with a blank first name.
Players ==
    << [first_name |-> "Josh", last_name |-> "Allen", position |-> "QB", team |-> "BUF"],
       [first_name |-> NoneStr, last_name |-> NoneStr, position |-> NoneStr, team |-> NoneStr],
       [first_name |-> "", last_name |-> "Kelce", position |-> "TE", team |-> "KC"] >>

\* The season results of a team: <<league_rank, league_points in tenths>>.
\* A legacy (2018) draft and a later one carry different tables, so that
\* rank and points are each drawn present, absent and (points) zero.
Standing(tid, legacy) ==
    IF legacy
    THEN CASE tid = "A" -> <<None, None>>
           [] tid = "B" -> <<3, None>>
           [] OTHER     -> <<None, 5>>
    ELSE CASE tid = "A" -> <<2, 25>>
           [] tid = "B" -> <<1, 0>>
           [] OTHER     -> <<None, 15>>

Pick(i, rnd, pir, tid, dord) ==
    LET p == Players[((i - 1) % Len(Players)) + 1]
        st == Standing(tid, isna(dord))
    IN  [round |-> rnd, pick_in_round |-> pir, overall_pick |-> i,
         team_id |-> tid, draft_order |-> dord,
         league_rank |-> st[1], league_points |-> st[2],
         first_name |-> p.first_name, last_name |-> p.last_name,
         position |-> p.position, team |-> p.team]

\* The team drafting from a slot of a draft that carries draft_order.
SlotTeam(slot) == CASE slot = 1 -> "A" [] slot = 2 -> "B" [] OTHER -> "C"

\* <<round, pick_in_round, team_id>> of a legacy row: any team at any
\* pick_in_round in round 1 (the only round whose pick_in_round is read),
\* any team in a later round.
LegacyKeys ==
    ({1} \X PickInRounds \X Teams) \cup ((2..MaxRound) \X {1} \X Teams)

\* Rows in overall_pick order (fetch_draft orders by it).  A draft carries
\* draft_order on every row or on none.
LegacyInput(k) ==
    [i \in DOMAIN k |-> Pick(i, k[i][1], k[i][2], k[i][3], None)]

ExplicitInput(k) ==
    [i \in DOMAIN k |-> Pick(i, k[i][1], k[i][2], SlotTeam(k[i][2]), k[i][2])]

NoBoard == [status |-> "none"]

\* -------------------------------------------------------------- rank_color
DefaultTotal == 12

hsl(hue_text) == "hsl(" \o hue_text \o ", 75%, 38%)"

\* Lines 207-210 compute in IEEE-754 doubles (53 significant bits, round to
\* nearest, ties to even).  With k = rank - 1 and d = max(total - 1, 1) the
\* exact hue is 120 * (d - k) / d; the double the code formats differs from
\* it by the rounding of k / d and of 1 - t, which decides the digit when the
\* exact hue lies half way between two integers.  The roundings are followed
\* here in integers: a double is held as the exact fraction plus an error
\* e / (d * 2^(52 - x)), x = floor_log2(k, d), and only e is computed.

\* (k * 2^n) % d
RECURSIVE shift_mod(_, _, _)
shift_mod(k, n, d) ==
    IF n = 0 THEN k % d ELSE (2 * shift_mod(k, n - 1, d)) % d

\* the exponent of the double k / d: the x with 2^x <= k / d < 2^(x + 1)
RECURSIVE floor_log2(_, _)
floor_log2(k, d) ==
    IF k < d THEN floor_log2(2 * k, d) - 1
    ELSE IF k >= 2 * d THEN floor_log2(k, 2 * d) + 1
    ELSE 0

\* line 207, t = (rank - 1) / max(total - 1, 1): the division rounds k / d
\* to the 53-bit significand m; the result is m * d - k * 2^(52 - x), so
\* that t = k / d + t_error / (d * 2^(52 - x)).
t_error(k, d) ==
    LET s == 52 - floor_log2(k, d)
        r == shift_mod(k, s, d)
        odd == ((2 * shift_mod(k, s - 1, d)) \div d) % 2 = 1
    IN  IF 2 * r < d THEN 0 - r
        ELSE IF 2 * r > d THEN d - r
        ELSE IF odd THEN d - r ELSE 0 - r

\* line 208, 1 - t for 0 < t: exact when t >= 1/2; below that the difference
\* lies in [1/2, 1] and is rounded to a multiple of 2^-53, which drops the
\* lowest j = -1 - x bits of m.  The result is e with
\* 1 - t = (d - k) / d + e / (d * 2^(52 - x)).
one_minus_t_error(k, d) ==
    LET x == floor_log2(k, d)
        n1 == t_error(k, d)
        j == (0 - 1) - x
        up == IF n1 > 0 THEN 1 ELSE 0
        low == (((shift_mod(k, 53, d) * 2^j) \div d) + up) % 2^j
        kept_odd == ((((shift_mod(k, 52, d) * 2^(j + 1)) \div d) + up)
                        \div 2^j) % 2 = 1
        half == 2^(j - 1)
        c == IF low < half THEN low
             ELSE IF low > half THEN low - 2^j
             ELSE IF kept_odd THEN low - 2^j ELSE low
    IN  IF x >= 0 - 1 THEN 0 - n1 ELSE c * d - n1

\* line 208, 1 - t for t < 0 (a rank below 1), k = -(rank - 1): the sum
\* 1 + |t| has the exponent of (d + k) / d and drops the lowest
\* j = floor_log2(d + k, d) - x bits of m.  The result is e with
\* 1 - t = (d + k) / d + e / (d * 2^(52 - x)).
one_plus_t_error(k, d) ==
    LET x == floor_log2(k, d)
        n1 == t_error(k, d)
        j == floor_log2(d + k, d) - x
        up == IF n1 > 0 THEN 1 ELSE 0
        low == (((shift_mod(k, (52 - x) - j, d) * 2^j) \div d) + up) % 2^j
        kept_odd == ((((shift_mod(k, (51 - x) - j, d) * 2^(j + 1)) \div d) + up)
                        \div 2^j) % 2 = 1
        half == 2^(j - 1)
        c == IF low < half THEN 0 - low
             ELSE IF low > half THEN 2^j - low
             ELSE IF kept_odd THEN 2^j - low ELSE 0 - low
    IN  IF j = 0 THEN n1 ELSE c * d + n1

\* lines 208-210, hue = 120 * (1 - t) and "{hue:.0f}": the nearest integer
\* to the double hue, ties to even, with the sign of a negative hue kept.
\* Off a tie the exact fraction decides.  On a tie q + 1/2 the product is
\* rounded to a double of exponent y first: an error of at most half a unit
\* in the last place gives q + 1/2 back and the tie goes to the even
\* neighbour; a larger one moves the double off the tie to its own side.
hue_text(k, d) ==
    LET numerator == 120 * (d - k)
        a == IF numerator < 0 THEN 0 - numerator ELSE numerator
        q == a \div d
        r == a % d
        even == IF q % 2 = 0 THEN q ELSE q + 1
        e == IF k > 0 THEN one_minus_t_error(k, d)
             ELSE one_plus_t_error(0 - k, d)
        y == IF q = 0 THEN 0 - 1 ELSE floor_log2(q, 1)
        sh == (1 + floor_log2(IF k > 0 THEN k ELSE 0 - k, d)) - y
        size == 120 * (IF e < 0 THEN 0 - e ELSE e)
        within == IF sh >= 0 THEN size * 2^sh <= d ELSE size <= d * 2^(0 - sh)
        h == IF 2 * r < d THEN q
             ELSE IF 2 * r > d THEN q + 1
             ELSE IF k = 0 \/ within THEN even
             ELSE IF (e > 0) = (numerator > 0) THEN q + 1 ELSE q
    IN  IF numerator < 0 THEN "-" \o ToString(h) ELSE ToString(h)

\* lines 202-211.  (rank_color_mut is the variant that normalises by total
\* instead of total - 1; C7 tells the two apart.)
rank_color_mut(rank, total) ==
    IF rank = None THEN <<"#6c757d", "#fff">>
    ELSE LET d == IF total > 1 THEN total ELSE 1
         IN  <<hsl(hue_text(rank - 1, d)), "#fff">>
rank_color(rank, total) ==
    IF rank = None THEN <<"#6c757d", "#fff">>
    ELSE LET d == IF total - 1 > 1 THEN total - 1 ELSE 1
         IN  <<hsl(hue_text(rank - 1, d)), "#fff">>

\* ------------------------------------------------------------- style_board
\* lines 24-34
POSITION_COLORS(p) ==
    CASE p = "QB" -> "#FFF0B3"
      [] p = "RB" -> "#D1EAF5"
      [] p = "WR" -> "#D4F0D4"
      [] p = "TE" -> "#FFD9E2"
      [] p \in {"K", "TK"} -> "#E6E6FA"
      [] p \in {"TDSP", "DEF"} -> "#E0E0E0"
      [] OTHER -> "#FFFFFF"

\* lines 215-245: the background of every cell ("" where the styler sets no
\* style) and the (bg, fg) of every column header.
style_board(text_grid, pos_grid, col_ranks, num_slots) ==
    [cells |-> [rd \in DOMAIN pos_grid |-> [slot \in DOMAIN pos_grid[rd] |->
                   IF pos_grid[rd][slot] # ""
                   THEN POSITION_COLORS(pos_grid[rd][slot]) ELSE ""]],
     headers |-> [l \in DOMAIN col_ranks |-> rank_color(col_ranks[l], num_slots)]]

\* --------------------------------------------------------- _paginated_fetch
MaxRows == 9
MaxPageSize == 4

\* line 63: query_builder.range(from, to).execute().data: the rows at the
\* 0-based positions from..to, both included, that the query has.
range_execute(rows, from, to) ==
    SubSeq(rows, from + 1, IF to + 1 < Len(rows) THEN to + 1 ELSE Len(rows))

\* line 65.  (last_page_mut is the variant that also stops on a full page;
\* C9 tells the two apart.)
last_page_mut(data, size) == Len(data) <= size
last_page(data, size) == Len(data) < size

\* ------------------------------------------------------------ the database
\* A string that _league_display_name searches is held as its tokens: the
\* text outside a match of #(\d+), a "#" and a run of digits.  An absent
\* name is NoneName; a draft_date is <<year, month, day>> (the first ten
\* characters of the column), <<>> when absent.
NoneName == <<NoneStr>>
Digits == {"1036", "1040", "77"}

LeaguesTable ==
    << [league_id |-> 4, year |-> 2019, name |-> <<>>, draft_date |-> <<>>],
       [league_id |-> 1, year |-> 2019,
        name |-> <<"$350 Rotowire Online Championship ", "#", "1036">>,
        draft_date |-> <<2019, 7, 23>>],
       [league_id |-> 2, year |-> 2019,
        name |-> <<"$350 Rotowire Online Championship ", "#", "1040">>,
        draft_date |-> <<>>],
       [league_id |-> 3, year |-> 2018,
        name |-> <<"Legacy ", "#", "77">>, draft_date |-> <<2018, 2, 30>>],
       [league_id |-> 5, year |-> 2018, name |-> NoneName,
        draft_date |-> <<2018, 8, 5>>] >>

LeagueIds == {LeaguesTable[i].league_id : i \in DOMAIN LeaguesTable}

RECURSIVE eq_year(_, _)
\* the rows of a table that satisfy eq("year", year), in the table's order
eq_year(rows, year) ==
    IF rows = <<>> THEN <<>>
    ELSE IF Head(rows).year = year
         THEN <<Head(rows)>> \o eq_year(Tail(rows), year)
         ELSE eq_year(Tail(rows), year)

\* lines 72-75: the distinct years, descending
fetch_years ==
    LET ys == {LeaguesTable[i].year : i \in DOMAIN LeaguesTable}
    IN  CHOOSE s \in [1..Cardinality(ys) -> ys] :
            \A a, b \in DOMAIN s : a < b => s[a] > s[b]

\* lines 79-83: LeaguesTable lists each year's leagues in order("name")
fetch_leagues(year) == eq_year(LeaguesTable, year)

RECURSIVE JoinTokens(_)
JoinTokens(tokens) ==
    IF tokens = <<>> THEN "" ELSE Head(tokens) \o JoinTokens(Tail(tokens))

MonthName ==
    <<"January", "February", "March", "April", "May", "June", "July",
      "August", "September", "October", "November", "December">>

DaysInMonth(y, m) ==
    IF m = 2
    THEN IF (y % 4 = 0 /\ y % 100 # 0) \/ y % 400 = 0 THEN 29 ELSE 28
    ELSE IF m \in {4, 6, 9, 11} THEN 30 ELSE 31

\* line 96: strptime raises ValueError for a date that does not exist
strptime_ok(date) ==
    /\ date[1] \in 1..9999
    /\ date[2] \in 1..12
    /\ date[3] \in 1..DaysInMonth(date[1], date[2])

\* lines 86-100
_league_display_name(lg) ==
    LET name == IF lg.name = NoneName THEN <<>> ELSE lg.name
        hits == {k \in 1..(Len(name) - 1) :
                    name[k] = "#" /\ name[k + 1] \in Digits}
        label == IF hits # {} THEN "#" \o name[Min(hits) + 1]
                 ELSE JoinTokens(name)
        date == lg.draft_date
    IN  IF date # <<>> /\ strptime_ok(date)
        THEN label \o " (" \o MonthName[date[2]] \o " "
                   \o ToString(date[3]) \o ")"
        ELSE label

\* line 115: .range(0, 239)
DraftRowLimit == 240

\* lines 104-118
fetch_draft(db, league_id) ==
    IF league_id \in DOMAIN db
    THEN range_execute(db[league_id], 0, DraftRowLimit - 1)
    ELSE <<>>

\* ---------------------------------------------------------- sidebar_filters
\* st.selectbox: the widget's value when it is one of the options, else the
\* first option (None when there is none).
selectbox(options, value, none) ==
    IF \E i \in DOMAIN options : options[i] = value THEN value
    ELSE IF options = <<>> THEN none ELSE options[1]

\* lines 282-286: the button's effect on session state.  (load_board_mut
\* is the variant that copies the pending league on every run of the
\* fragment; C10 tells the two apart.)
load_board_mut(ss, clicked) ==
    [ss EXCEPT !.selected_league_id = ss.pending_league_id,
               !.selected_league_name = ss.pending_league_name,
               !.selected_year = ss.pending_year]
load_board(ss, clicked) ==
    IF clicked
    THEN [ss EXCEPT !.selected_league_id = ss.pending_league_id,
                    !.selected_league_name = ss.pending_league_name,
                    !.selected_year = ss.pending_year]
    ELSE ss

\* lines 262-288: one run of the fragment, given the widgets' values and
\* whether the button was clicked; returns the session state and the
\* League selectbox's value.  A key never assigned is None (.get).
sidebar_filters(ss, year_widget, league_widget, clicked) ==
    LET years == fetch_years
        selected_year == selectbox(years, year_widget, None)
        ss1 == IF ss.leagues_year = None \/ ss.leagues_year # selected_year
               THEN [ss EXCEPT !.leagues_year = selected_year,
                               !.leagues_data = fetch_leagues(selected_year)]
               ELSE ss
        leagues_data == ss1.leagues_data
        display_names == [i \in DOMAIN leagues_data |->
                             _league_display_name(leagues_data[i])]
        selected_display == selectbox(display_names, league_widget, NoneStr)
        ss2 == IF selected_display # NoneStr /\ selected_display # ""
               THEN LET idx == Min({i \in DOMAIN display_names :
                                       display_names[i] = selected_display})
                        lg == leagues_data[idx]
                    IN  [ss1 EXCEPT !.pending_league_id = lg.league_id,
                                    !.pending_league_name = lg.name,
                                    !.pending_year = selected_year]
               ELSE ss1
    IN  [session_state |-> load_board(ss2, clicked),
         year_select |-> selected_year,
         league_select |-> selected_display]

\* -------------------------------------------------------------- draft_board

\* line 301: `not lid`
not_lid(lid) == lid = None \/ lid = 0

\* line 308: `not picks`.  (not_picks_mut is the variant without the test;
\* C8 tells the two apart.)
not_picks_mut(picks) == FALSE
not_picks(picks) == picks = <<>>

\* lines 296-319: what one run of the fragment renders.  out is "prompt"
\* (st.info), "nodata" (st.warning), "table" (st.table) or "error" (the
\* exception build_board raised); fetch is the league id handed to
\* fetch_draft (None when it was not called), board what build_board
\* returned (NoBoard when it was not called), styled what style_board did.
draft_board(ss, db, r1) ==
    LET lid == ss.selected_league_id
        picks == fetch_draft(db, lid)
        built == build_board(picks, r1)
        blank == [out |-> "prompt", fetch |-> None, title |-> <<>>,
                  board |-> NoBoard, styled |-> <<>>]
    IN  IF not_lid(lid) THEN blank
        ELSE IF not_picks(picks)
        THEN [blank EXCEPT !.out = "nodata", !.fetch = lid]
        ELSE IF built.status # "ok"
        THEN [blank EXCEPT !.out = "error", !.fetch = lid,
                !.title = <<ss.selected_league_name, ss.selected_year>>,
                !.board = built]
        ELSE [out |-> "table", fetch |-> lid,
              title |-> <<ss.selected_league_name, ss.selected_year>>,
              board |-> built,
              styled |-> style_board(built.text_grid, built.pos_grid,
                                     built.col_ranks, built.num_slots)]

\* ------------------------------------------------ build_board on its own
IdleBoard == picks_data = <<>> /\ board = NoBoard
IdleColor == c_rank = None /\ c_total = DefaultTotal /\ color = <<>>
IdleFetch ==
    /\ source = <<>> /\ page_size = 1 /\ offset = 0
    /\ all_rows = <<>> /\ requests = <<>> /\ fetch_pc = "idle"

EmptySession ==
    [leagues_year |-> None, leagues_data |-> <<>>,
     pending_league_id |-> None, pending_league_name |-> NoneName,
     pending_year |-> None,
     selected_league_id |-> None, selected_league_name |-> NoneName,
     selected_year |-> None]

IdleApp ==
    /\ db_drafts = <<>> /\ year_select = None /\ league_select = NoneStr
    /\ session_state = EmptySession
    /\ view = draft_board(EmptySession, <<>>, <<>>)
    /\ fetched = {} /\ event = "idle"

InitBoard ==
    /\ \E n \in 1..MaxPicks :
          \/ \E k \in [1..n -> LegacyKeys] : picks_data = LegacyInput(k)
          \/ \E k \in [1..n -> (1..MaxRound) \X (1..MaxSlot)] :
                picks_data = ExplicitInput(k)
    /\ board = NoBoard
    /\ IdleColor /\ IdleFetch /\ IdleApp

Build ==
    /\ board.status = "none"
    /\ \E r1 \in sort_values(picks_data) : board' = build_board(picks_data, r1)
    /\ UNCHANGED <<picks_data, color_vars, fetch_vars, app_vars>>

NextBoard == Build

SpecBoard == InitBoard /\ [][NextBoard]_vars

\* ------------------------------------------------- rank_color on its own
\* The totals are those around the default and 4 * 12 + 1 = 49, the
\* smallest total at which the rounding of the doubles decides a hue.
InitColor ==
    /\ c_total \in (1..(DefaultTotal + 1)) \cup {4 * DefaultTotal + 1}
    /\ c_rank \in {None} \cup (1..c_total)
    /\ color = <<>>
    /\ IdleBoard /\ IdleFetch /\ IdleApp

Paint ==
    /\ color = <<>>
    /\ color' = rank_color(c_rank, c_total)
    /\ UNCHANGED <<c_rank, c_total, board_vars, fetch_vars, app_vars>>

NextColor == Paint

SpecColor == InitColor /\ [][NextColor]_vars

\* -------------------------------------------- _paginated_fetch on its own
\* The query's rows are numbered in the order the source returns them.
InitFetch ==
    /\ \E n \in 0..MaxRows : source = [i \in 1..n |-> i]
    /\ page_size \in 1..MaxPageSize
    /\ offset = 0 /\ all_rows = <<>> /\ requests = <<>> /\ fetch_pc = "loop"
    /\ IdleBoard /\ IdleColor /\ IdleApp

\* lines 62-67: one pass of the loop
FetchPage ==
    /\ fetch_pc = "loop"
    /\ LET data == range_execute(source, offset, offset + page_size - 1)
       IN  /\ requests' = Append(requests, <<offset, offset + page_size - 1>>)
           /\ all_rows' = all_rows \o data
           /\ IF last_page(data, page_size)
              THEN fetch_pc' = "done" /\ offset' = offset
              ELSE fetch_pc' = "loop" /\ offset' = offset + page_size
    /\ UNCHANGED <<source, page_size, board_vars, color_vars, app_vars>>

NextFetch == FetchPage

SpecFetch == InitFetch /\ [][NextFetch]_vars

\* The loop is straight-line code between two requests: once entered, every
\* pass that can run does run.
SpecFetchLive == SpecFetch /\ WF_vars(FetchPage)

\* ------------------------------------------------------------------ the app
DraftSamples ==
    { <<>>,
      ExplicitInput(<< <<1, 1>>, <<1, 2>>, <<2, 2>> >>),
      LegacyInput(<< <<1, 2, "A">>, <<1, 1, "B">>, <<2, 1, "B">> >>) }

\* the lines run by one run of the whole script: sidebar_filters() (line
\* 292), then draft_board() (line 322)
ScriptRun(ss, year_widget, league_widget, ev) ==
    LET side == sidebar_filters(ss, year_widget, league_widget, FALSE)
        lid == side.session_state.selected_league_id
    IN  /\ session_state' = side.session_state
        /\ year_select' = side.year_select
        /\ league_select' = side.league_select
        /\ \E r1 \in sort_values(fetch_draft(db_drafts', lid)) :
              view' = draft_board(side.session_state, db_drafts', r1)
        /\ fetched' = IF not_lid(lid) THEN fetched ELSE fetched \cup {lid}
        /\ event' = ev

\* The state after the first run of the script in a new session.  Every
\* league of the table has one of the sample drafts; of the two leagues
\* without a name, that of 2019 (id 4) has not drafted and that of 2018
\* (id 5) has the draft of the legacy format.
Init ==
    /\ db_drafts \in [LeagueIds -> DraftSamples]
    /\ db_drafts[4] = <<>>
    /\ db_drafts[5] = LegacyInput(<< <<1, 2, "A">>, <<1, 1, "B">>,
                                     <<2, 1, "B">> >>)
    /\ LET side == sidebar_filters(EmptySession, None, NoneStr, FALSE)
       IN  /\ session_state = side.session_state
           /\ year_select = side.year_select
           /\ league_select = side.league_select
           /\ view = draft_board(side.session_state, db_drafts, <<>>)
    /\ fetched = {}
    /\ event = "init"
    /\ IdleBoard /\ IdleColor /\ IdleFetch

\* The user picks another year: the fragment sidebar_filters reruns.  The
\* League selectbox, its options replaced, keeps its value when that is one
\* of the new options or is reset to the first of them.  (While the rerun a
\* click asked for has not run, a widget change is merged into that rerun:
\* AppRerun.)
SelectYear ==
    /\ event # "load"
    /\ \E y \in {fetch_years[i] : i \in DOMAIN fetch_years} \ {year_select} :
       \E lw \in {league_select, NoneStr} :
        LET side == sidebar_filters(session_state, y, lw, FALSE)
        IN  /\ session_state' = side.session_state
            /\ year_select' = side.year_select
            /\ league_select' = side.league_select
            /\ event' = "year"
            /\ UNCHANGED <<db_drafts, view, fetched, board_vars, color_vars,
                           fetch_vars>>

\* The user picks another league: the fragment sidebar_filters reruns.
SelectLeague ==
    /\ event # "load"
    /\ \E i \in DOMAIN session_state.leagues_data :
        LET d == _league_display_name(session_state.leagues_data[i])
            side == sidebar_filters(session_state, year_select, d, FALSE)
        IN  /\ d # league_select
            /\ session_state' = side.session_state
            /\ year_select' = side.year_select
            /\ league_select' = side.league_select
            /\ event' = "league"
            /\ UNCHANGED <<db_drafts, view, fetched, board_vars, color_vars,
                           fetch_vars>>

\* The user clicks Load Board: the fragment sidebar_filters reruns with the
\* button set (lines 262-286), copies pending_* to selected_* and ends in
\* st.rerun(scope="app").  The page is not rendered again in this run:
\* draft_board runs next in AppRerun.
ClickLoad ==
    /\ event # "load"
    /\ LET side == sidebar_filters(session_state, year_select, league_select,
                                   TRUE)
       IN  /\ session_state' = side.session_state
           /\ year_select' = side.year_select
           /\ league_select' = side.league_select
           /\ event' = "load"
    /\ UNCHANGED <<db_drafts, view, fetched, board_vars, color_vars,
                   fetch_vars>>

\* The rerun that line 286 asked for: the whole script runs again.  A change
\* of the Year or League widget that arrived in between is merged into this
\* run, so the widgets it reads are those of the click or newer ones: any
\* year, and the League value kept, reset, or one of the options shown.
AppRerun ==
    /\ event = "load"
    /\ db_drafts' = db_drafts
    /\ \E y \in {fetch_years[i] : i \in DOMAIN fetch_years} :
       \E lw \in {league_select, NoneStr}
                   \cup {_league_display_name(session_state.leagues_data[i]) :
                           i \in DOMAIN session_state.leagues_data} :
          ScriptRun(session_state, y, lw, "rerun")
    /\ UNCHANGED <<board_vars, color_vars, fetch_vars>>

Next == SelectYear \/ SelectLeague \/ ClickLoad \/ AppRerun

Spec == Init /\ [][Next]_vars

\* ================================================================ claims
\* What the claims about build_board read off a state of SpecBoard.
Computed == board.status # "none"
Resolved == board.df_draft_order
Rows == DOMAIN picks_data
Legacy == \A i \in Rows : picks_data[i].draft_order = None
SameCell(i, j) ==
    /\ picks_data[i].round = picks_data[j].round
    /\ Resolved[i] = Resolved[j]
    /\ Resolved[i] # None
Round1Rows == {i \in Rows : picks_data[i].round = 1}
Round1Teams == {picks_data[i].team_id : i \in Round1Rows}
AllTeams == {picks_data[i].team_id : i \in Rows}

\* C1.  Collision policy: whenever two picks resolve to the same (round,
\* slot), build_board returns its grids and the cell holds, in the text grid
\* and in the position grid, the values of the last such pick in input order.
C1_CollisionLastWriteWins ==
    Computed =>
        \A i, j \in Rows :
            (i < j /\ SameCell(i, j) /\ ~\E k \in Rows : k > j /\ SameCell(j, k))
            => /\ board.status = "ok"
               /\ board.text_grid[picks_data[j].round][Resolved[j]]
                    = cell_text(picks_data[j])
               /\ board.pos_grid[picks_data[j].round][Resolved[j]]
                    = _safe(picks_data[j].position)

\* C2.  MalformedDraftOrder: when no pick has draft_order and some team id
\* of the list has no round-1 pick, build_board fails and returns no grid.
C2_MalformedDraftOrderFails ==
    (Computed /\ Legacy /\ ~(AllTeams \subseteq Round1Teams))
        => board.status = "error"

\* C3.  Slot derivation: when no pick has draft_order, the teams get the
\* slots 1, 2, ... in the order of their first round-1 pick by
\* pick_in_round (a team met again keeps its first slot, the slots are
\* consecutive), and every pick is placed in its team's slot.  Stated for
\* round-1 picks with distinct pick_in_round that cover every team.
FirstPick(t) ==
    Min({picks_data[i].pick_in_round :
            i \in {r \in Round1Rows : picks_data[r].team_id = t}})
ExpectedSlot(t) ==
    1 + Cardinality({u \in Round1Teams : FirstPick(u) < FirstPick(t)})
Round1Distinct ==
    \A i, j \in Round1Rows :
        i # j => picks_data[i].pick_in_round # picks_data[j].pick_in_round
C3_SlotDerivation ==
    (Computed /\ Legacy /\ Round1Distinct /\ AllTeams \subseteq Round1Teams)
    => /\ \A i \in Rows : Resolved[i] = ExpectedSlot(picks_data[i].team_id)
       /\ board.status = "ok" =>
            \A i \in Rows :
                board.text_grid[picks_data[i].round]
                               [ExpectedSlot(picks_data[i].team_id)]
                    = cell_text(picks_data[i])

\* C4.  Dimension invariant: a non-empty list whose picks all resolve to a
\* slot, no two to the same (round, slot), gets grids; and the grids
\* returned have exactly the rows 1..max(round) and the columns 1..(largest
\* resolved draft_order), in the text grid and in the position grid, with
\* the empty string in both wherever no pick maps to the cell.
LargestRound == CHOOSE r \in {picks_data[i].round : i \in Rows} :
                    \A i \in Rows : picks_data[i].round <= r
LargestSlot == CHOOSE n \in {Resolved[i] : i \in Rows} :
                    \A i \in Rows : Resolved[i] <= n
NoPickAt(rd, slot) ==
    ~\E i \in Rows : picks_data[i].round = rd /\ Resolved[i] = slot
C4_DimensionInvariant ==
    /\ (/\ Computed
        /\ \A i \in Rows : Resolved[i] # None
        /\ \A i, j \in Rows : i < j => ~SameCell(i, j))
       => board.status = "ok"
    /\ board.status = "ok" =>
        /\ board.num_slots = LargestSlot
        /\ Len(board.columns) = LargestSlot
        /\ DOMAIN board.text_grid = 1..LargestRound
        /\ DOMAIN board.pos_grid = 1..LargestRound
        /\ \A rd \in 1..LargestRound :
            /\ DOMAIN board.text_grid[rd] = 1..LargestSlot
            /\ DOMAIN board.pos_grid[rd] = 1..LargestSlot
            /\ \A slot \in 1..LargestSlot :
                NoPickAt(rd, slot) =>
                    /\ board.text_grid[rd][slot] = ""
                    /\ board.pos_grid[rd][slot] = ""

\* C4's case: a legacy draft of two rounds and two slots, returned with a
\* cell that no pick maps to and a cell that a pick fills.
C4_Witness ==
    /\ board.status = "ok" /\ Legacy
    /\ LargestRound = 2 /\ LargestSlot = 2
    /\ NoPickAt(2, 1) /\ board.text_grid[2][1] = ""
    /\ ~NoPickAt(1, 2) /\ board.text_grid[1][2] # ""

\* C5.  Coverage: in the grids returned, every input pick sits at [its
\* round][its resolved slot], with its display text in the text grid and
\* its position ("" if absent) in the position grid, and its text is at no
\* other coordinate.
C5_Coverage ==
    board.status = "ok" =>
        \A i \in Rows :
            /\ Resolved[i] # None
            /\ board.text_grid[picks_data[i].round][Resolved[i]]
                 = cell_text(picks_data[i])
            /\ board.pos_grid[picks_data[i].round][Resolved[i]]
                 = _safe(picks_data[i].position)
            /\ \A rd \in DOMAIN board.text_grid :
               \A slot \in DOMAIN board.text_grid[rd] :
                    board.text_grid[rd][slot] = cell_text(picks_data[i])
                    => rd = picks_data[i].round /\ slot = Resolved[i]

\* C6.  Column header: the label of slot n is "Slot n" and, when the slot's
\* first pick has a rank or points, a second line of "#rank" (rank present)
\* and "{points}pts" (points present, a total of 0 included), joined by
\* " <middle dot> " when both are there; the rank returned for the slot is
\* that rank, or None when there is none.
SlotRows(slot) == {i \in Rows : Resolved[i] = slot}
ExpectedLabel(slot) ==
    LET line1 == "Slot " \o ToString(slot)
        first == picks_data[Min(SlotRows(slot))]
        has_rank == SlotRows(slot) # {} /\ first.league_rank # None
        has_pts == SlotRows(slot) # {} /\ first.league_points # None
        rank == "#" \o ToString(first.league_rank)
        pts == format_0f(first.league_points) \o "pts"
    IN  CASE has_rank /\ has_pts ->
               line1 \o "\n" \o rank \o " " \o MIDDLE_DOT \o " " \o pts
          [] has_rank /\ ~has_pts -> line1 \o "\n" \o rank
          [] ~has_rank /\ has_pts -> line1 \o "\n" \o pts
          [] OTHER -> line1
ExpectedRank(slot) ==
    IF SlotRows(slot) = {} THEN None
    ELSE picks_data[Min(SlotRows(slot))].league_rank
C6_ColumnHeader ==
    board.status = "ok" =>
        \A slot \in 1..board.num_slots :
            /\ board.columns[slot] = ExpectedLabel(slot)
            /\ board.col_ranks[board.columns[slot]] = ExpectedRank(slot)

\* C7.  Rank colour, total = 12: the colour string carries a hue within
\* 0..120; rank 1 has hue 120 and rank 12 hue 0; the hue of every higher
\* rank is strictly smaller; and ranks 6 and 7 are the two whose hue is
\* nearest 60.
Hue(bg) == CHOOSE h \in 0..120 : bg = hsl(ToString(h))
HueOfRank(rank) == Hue(rank_color(rank, DefaultTotal)[1])
Dist60(h) == IF h < 60 THEN 60 - h ELSE h - 60
C7_RankColourMonotone ==
    (c_total = DefaultTotal /\ color # <<>> /\ c_rank # None) =>
        /\ \E h \in 0..120 : color[1] = hsl(ToString(h))
        /\ c_rank = 1 => Hue(color[1]) = 120
        /\ c_rank = DefaultTotal => Hue(color[1]) = 0
        /\ \A r \in 1..DefaultTotal :
              r > c_rank => HueOfRank(r) < Hue(color[1])
        /\ c_rank \notin {6, 7} =>
              /\ Dist60(Hue(color[1])) > Dist60(HueOfRank(6))
              /\ Dist60(Hue(color[1])) > Dist60(HueOfRank(7))

\* C7's case: rank 7 of 12 painted, its hue the 55 next to the midpoint.
C7_Witness ==
    /\ c_total = DefaultTotal /\ c_rank = 7
    /\ color = <<"hsl(55, 75%, 38%)", "#fff">>

\* C8.  EmptyInput: once draft_board has run for the selected league and
\* that league has no picks, it has reported "no data": build_board and
\* style_board were not called and no table is rendered.
C8_EmptyInputShortCircuits ==
    LET lid == session_state.selected_league_id
    IN  (event \notin {"idle", "load"} /\ lid # None /\ lid # 0
            /\ db_drafts[lid] = <<>>)
        => /\ view.out = "nodata"
           /\ view.board = NoBoard
           /\ view.styled = <<>>

\* C8's case: a league without picks was loaded and the rerun has run.
C8_Witness ==
    /\ event = "rerun"
    /\ session_state.selected_league_id # None
    /\ db_drafts[session_state.selected_league_id] = <<>>
    /\ view.out = "nodata" /\ view.fetch = session_state.selected_league_id

\* What C9 says of every state of the fetch.
FetchAsClaimed ==
    fetch_pc # "idle" =>
        /\ \A k \in DOMAIN requests :
              requests[k] = <<(k - 1) * page_size, k * page_size - 1>>
        /\ Len(requests) <= (Len(source) \div page_size) + 1
        /\ fetch_pc = "loop" =>
              /\ Len(requests) <= Len(source) \div page_size
              /\ all_rows = SubSeq(source, 1, Len(requests) * page_size)
        /\ fetch_pc = "done" =>
              /\ Len(requests) = (Len(source) \div page_size) + 1
              /\ all_rows = source

\* C9.  Paged fetch: the windows asked for are [0,P-1], [P,2P-1], ... in
\* order; while the loop runs every page so far was full; the loop ends,
\* after exactly floor(N/P)+1 requests, the last one short (empty when P
\* divides N), and then all_rows is the source: every row once, in order.
C9_PagedFetch == []FetchAsClaimed /\ <>(fetch_pc = "done")

\* C9's case: a source of two full pages, done after a third, empty one.
C9_Witness ==
    /\ fetch_pc = "done" /\ page_size = 3 /\ Len(source) = 6
    /\ Len(requests) = 3 /\ requests[3] = <<6, 8>>
    /\ all_rows = source

\* C10.  Sidebar session state: the selected id, name and year change only
\* in a Load Board click, which copies the pending id, name and year of
\* that moment; a change of the year or league selector leaves them, what
\* draft_board shows and the drafts fetched as they were; the rerun a click
\* ends in leaves the selection and makes draft_board show the selected
\* league, which it then keeps showing; and while no click has copied a
\* pending league it shows the prompt and no draft has been fetched.
Selected(ss) ==
    <<ss.selected_league_id, ss.selected_league_name, ss.selected_year>>
Pending(ss) ==
    <<ss.pending_league_id, ss.pending_league_name, ss.pending_year>>
C10_SelectionOnlyOnLoad ==
    /\ [](event # "idle" =>
            /\ session_state.selected_league_id = None
                 => view.out = "prompt" /\ fetched = {}
            /\ (event # "load" /\ view.out # "prompt")
                 => view.fetch = session_state.selected_league_id)
    /\ [][/\ event' = "load" =>
                /\ Selected(session_state') = Pending(session_state)
                /\ Selected(session_state') = Pending(session_state')
          /\ event' # "load" =>
                Selected(session_state') = Selected(session_state)
          /\ event' # "rerun" =>
                /\ view' = view
                /\ fetched' = fetched]_vars

\* C10's case: a league is loaded and shown, and the selector has since
\* been moved to another league without a click.
C10_Witness ==
    /\ event = "league"
    /\ session_state.selected_league_id # None
    /\ session_state.pending_league_id # session_state.selected_league_id
    /\ view.out = "table"
    /\ view.fetch = session_state.selected_league_id

====
